---------------------------- MODULE Spec2Model ----------------------------
(***************************************************************************)
(* A model of src/main.py: the account-record decoder                      *)
(* (deserialize_account_data), the account scan (find_explorer_pdas), the  *)
(* orchestrator loop (main), the function extractor (RustParser) and the   *)
(* workspace walk (analyze_repo / process_files).                          *)
(*                                                                         *)
(* Text is a sequence of code points, a byte buffer a sequence of numbers  *)
(* in 0..255.  A call that can raise returns a record whose kind is "ok"   *)
(* or the name of the Python exception.                                    *)
(***************************************************************************)
EXTENDS Integers, Sequences, FiniteSets, TLC

VARIABLES
    rec,          \* decoder: the record the buffer was encoded from
    mutation,     \* decoder: how the encoded buffer was damaged, if at all
    data,         \* decoder: the argument of deserialize_account_data
    result,       \* decoder: what deserialize_account_data returned or raised
    dpc,          \* decoder: "call" before the call, "done" after, "idle" elsewhere
    accounts_value, \* scan: accounts.value, the payloads the RPC query returned
    scan_i,       \* scan: index of the next account of the for loop
    scan_results, \* scan: the local list `results`
    scan_out,     \* scan: what find_explorer_pdas returned or raised
    accounts,     \* main: the records find_explorer_pdas returned
    main_i,       \* main: index of the next account of the for loop
    seen_repos,   \* main: the set seen_repos
    jsonl_files,  \* main: the program ids whose jsonl/<id>.jsonl exists
    library_name, \* main: the local library_name of the current iteration
    calls,        \* main: the calls of analyze_repo made so far, in order
    main_out,     \* main: "loop" while running, then "returned" or the exception
    content,      \* extractor: the text of the file, read as str
    nodes,        \* extractor: the children of the root node, in document order
    parse_i,      \* extractor: index of the next match of the for loop
    functions,    \* extractor: the local list `functions`
    func_nodes,   \* extractor: for each element of functions, the node it came from
    parse_out,    \* extractor: what parse_file returned
    fs,           \* walk: the cloned repository, directory -> file names
    walk_pc,      \* walk: where analyze_repo stands
    outer_stack,  \* walk: the directories os.walk(repo_root) has yet to yield
    inner_stack,  \* walk: the directories os.walk(root/src) has yet to yield
    cur_root,     \* walk: the `root` of the workspace being read
    rust_files,   \* walk: the local rust_files
    passed,       \* walk: the arguments of each process_files call, in order
    results,      \* walk: the files with an entry in the local `results`
    walk_out      \* walk: what analyze_repo returned or raised

decodeVars == <<rec, mutation, data, result, dpc>>
scanVars == <<accounts_value, scan_i, scan_results, scan_out>>
mainVars == <<accounts, main_i, seen_repos, jsonl_files, library_name, calls, main_out>>
extractVars == <<content, nodes, parse_i, functions, func_nodes, parse_out>>
walkVars == <<fs, walk_pc, outer_stack, inner_stack, cur_root, rust_files, passed,
              results, walk_out>>
vars == <<decodeVars, scanVars, mainVars, extractVars, walkVars>>

\* ------------------------------------------------------------------ bounds

\* Longest args list of a generated record.
MaxArgs == 2

\* Most accounts the RPC query returns.
MaxAccounts == 3

\* ------------------------------------------------------- Python primitives

Min(a, b) == IF a <= b THEN a ELSE b

\* s[a:b] of a sequence, for 0 <= a and 0 <= b: clamps to the length.
Slice(s, a, b) == SubSeq(s, a + 1, Min(b, Len(s)))

\* s[i] for i >= 0: the element, or IndexError.
Index(s, i) ==
    IF i < Len(s) THEN [kind |-> "ok", value |-> s[i + 1]]
    ELSE [kind |-> "IndexError"]

\* int.from_bytes(b, 'little'); 0 for the empty slice.
RECURSIVE from_bytes_little(_)
from_bytes_little(b) ==
    IF b = <<>> THEN 0 ELSE b[1] + 256 * from_bytes_little(Tail(b))

\* Optional[...]: None, or a value.
None == [some |-> FALSE]
Some(x) == [some |-> TRUE, value |-> x]

\* s.count(x)
RECURSIVE count(_, _)
count(s, x) ==
    IF s = <<>> THEN 0 ELSE (IF s[1] = x THEN 1 ELSE 0) + count(Tail(s), x)

\* sep.join(parts)
RECURSIVE join(_, _)
join(sep, parts) ==
    IF parts = <<>> THEN <<>>
    ELSE IF Len(parts) = 1 THEN parts[1]
    ELSE parts[1] \o sep \o join(sep, Tail(parts))

\* s.startswith(p)
startswith(s, p) == Len(s) >= Len(p) /\ SubSeq(s, 1, Len(p)) = p

\* s.endswith(p)
endswith(s, p) ==
    Len(s) >= Len(p) /\ SubSeq(s, Len(s) - Len(p) + 1, Len(s)) = p

\* ------------------------------------------------------ bytes.decode('utf-8')

IsCont(b) == b >= 128 /\ b <= 191

\* Number of continuation bytes the lead byte announces; -1 for a byte that
\* cannot start a character.
Following(b0) ==
    IF b0 < 128 THEN 0
    ELSE IF b0 >= 194 /\ b0 <= 223 THEN 1
    ELSE IF b0 >= 224 /\ b0 <= 239 THEN 2
    ELSE IF b0 >= 240 /\ b0 <= 244 THEN 3
    ELSE -1

\* The range the second byte must lie in (overlong forms, surrogates and
\* code points above 0x10FFFF are rejected here).
SecondOk(b0, b1) ==
    IF b0 = 224 THEN b1 >= 160 /\ b1 <= 191
    ELSE IF b0 = 237 THEN b1 >= 128 /\ b1 <= 159
    ELSE IF b0 = 240 THEN b1 >= 144 /\ b1 <= 191
    ELSE IF b0 = 244 THEN b1 >= 128 /\ b1 <= 143
    ELSE IsCont(b1)

\* The character starting at b[i]: [n |-> bytes used, cp |-> code point], n = 0
\* when the bytes at i are not a character (invalid or cut short).
CharAt(b, i) ==
    LET b0 == b[i]
        k  == Following(b0)
    IN  IF k = -1 \/ i + k > Len(b) THEN [n |-> 0, cp |-> 0]
        ELSE IF k = 0 THEN [n |-> 1, cp |-> b0]
        ELSE IF ~SecondOk(b0, b[i + 1]) THEN [n |-> 0, cp |-> 0]
        ELSE IF k = 1 THEN [n |-> 2, cp |-> (b0 % 32) * 64 + (b[i + 1] % 64)]
        ELSE IF ~IsCont(b[i + 2]) THEN [n |-> 0, cp |-> 0]
        ELSE IF k = 2
             THEN [n |-> 3,
                   cp |-> (b0 % 16) * 4096 + (b[i + 1] % 64) * 64 + (b[i + 2] % 64)]
        ELSE IF ~IsCont(b[i + 3]) THEN [n |-> 0, cp |-> 0]
        ELSE [n |-> 4,
              cp |-> (b0 % 8) * 262144 + (b[i + 1] % 64) * 4096
                     + (b[i + 2] % 64) * 64 + (b[i + 3] % 64)]

RECURSIVE DecodeFrom(_, _, _)
DecodeFrom(b, i, acc) ==
    IF i > Len(b) THEN [kind |-> "ok", value |-> acc]
    ELSE LET c == CharAt(b, i)
         IN  IF c.n = 0
             THEN [kind |-> "UnicodeDecodeError", object |-> b, start |-> i - 1]
             ELSE DecodeFrom(b, i + c.n, Append(acc, c.cp))

\* b.decode('utf-8'): the text, or UnicodeDecodeError with the attributes the
\* exception has (the bytes being decoded and the offset of the bad byte).
decode_utf8(b) == DecodeFrom(b, 1, <<>>)

\* ------------------------------------------------------------ solders.Pubkey

PUBKEY_BYTES == 32

Alphabet ==
    << "1", "2", "3", "4", "5", "6", "7", "8", "9", "A", "B", "C", "D", "E",
       "F", "G", "H", "J", "K", "L", "M", "N", "P", "Q", "R", "S", "T", "U",
       "V", "W", "X", "Y", "Z", "a", "b", "c", "d", "e", "f", "g", "h", "i",
       "j", "k", "m", "n", "o", "p", "q", "r", "s", "t", "u", "v", "w", "x",
       "y", "z" >>

RECURSIVE StripZeros(_)
StripZeros(n) ==
    IF n # <<>> /\ n[1] = 0 THEN StripZeros(Tail(n)) ELSE n

RECURSIVE CountLeading(_, _)
CountLeading(s, x) ==
    IF s # <<>> /\ s[1] = x THEN 1 + CountLeading(Tail(s), x) ELSE 0

\* Long division of a big-endian base-256 number by 58:
\* [q |-> quotient digits (leading zeros kept), r |-> remainder].
RECURSIVE DivMod58(_, _, _)
DivMod58(n, r, q) ==
    IF n = <<>> THEN [q |-> q, r |-> r]
    ELSE LET t == r * 256 + n[1]
         IN  DivMod58(Tail(n), t % 58, Append(q, t \div 58))

\* The base-58 digits, most significant first, of a big-endian number
\* without leading zeros.
RECURSIVE ToBase58(_, _)
ToBase58(n, acc) ==
    IF n = <<>> THEN acc
    ELSE LET d == DivMod58(n, 0, <<>>)
         IN  ToBase58(StripZeros(d.q), <<Alphabet[d.r + 1]>> \o acc)

\* str(Pubkey(b)): one "1" per leading zero byte, then the base-58 digits.
Base58Encode(b) ==
    [i \in 1..CountLeading(b, 0) |-> "1"] \o ToBase58(StripZeros(b), <<>>)

\* Pubkey(b) followed by str(): ValueError unless b holds exactly 32 bytes.
Pubkey(b) ==
    IF Len(b) # PUBKEY_BYTES THEN [kind |-> "ValueError"]
    ELSE [kind |-> "ok", value |-> Base58Encode(b)]

\* -------------------------------------------------- deserialize_account_data

\* A length-prefixed string at pos: the u32 prefix, the body decoded, and the
\* cursor after it.  Every slice clamps; only the decoding can raise.
ReadString(d, pos) ==
    LET len == from_bytes_little(Slice(d, pos, pos + 4))
        s   == decode_utf8(Slice(d, pos + 4, pos + 4 + len))
    IN  IF s.kind # "ok" THEN s
        ELSE [kind |-> "ok", value |-> s.value, next |-> pos + 4 + len]

\* ReadArgs with the arg put at the front of the list instead of its end.
RECURSIVE ReadArgsReversed(_, _, _, _)
ReadArgsReversed(d, pos, n, acc) ==
    IF n = 0 THEN [kind |-> "ok", value |-> acc, next |-> pos]
    ELSE LET a == ReadString(d, pos)
         IN  IF a.kind # "ok" THEN a
             ELSE ReadArgsReversed(d, a.next, n - 1, <<a.value>> \o acc)

\* for _ in range(n): read one arg and append it.
RECURSIVE ReadArgs(_, _, _, _)
ReadArgs(d, pos, n, acc) ==
    IF n = 0 THEN [kind |-> "ok", value |-> acc, next |-> pos]
    ELSE LET a == ReadString(d, pos)
         IN  IF a.kind # "ok" THEN a
             ELSE ReadArgs(d, a.next, n - 1, Append(acc, a.value))

\* ReadBump written as a slice, which clamps instead of raising.
ReadBumpSliced(d, pos) ==
    [kind |-> "ok", value |-> from_bytes_little(Slice(d, pos + 8, pos + 9))]

\* bump = data[current_pos+8]
ReadBump(d, pos) == Index(d, pos + 8)

deserialize_account_data(d) ==
    LET address == Pubkey(Slice(d, 0, 32)) IN
    IF address.kind # "ok" THEN address ELSE
    LET signer == Pubkey(Slice(d, 32, 64)) IN
    IF signer.kind # "ok" THEN signer ELSE
    LET version == ReadString(d, 64) IN
    IF version.kind # "ok" THEN version ELSE
    LET git_url == ReadString(d, version.next) IN
    IF git_url.kind # "ok" THEN git_url ELSE
    LET commit == ReadString(d, git_url.next) IN
    IF commit.kind # "ok" THEN commit ELSE
    LET args_len == from_bytes_little(Slice(d, commit.next, commit.next + 4))
        args     == ReadArgs(d, commit.next + 4, args_len, <<>>)
    IN
    IF args.kind # "ok" THEN args ELSE
    LET deploy_slot == from_bytes_little(Slice(d, args.next, args.next + 8))
        bump        == ReadBump(d, args.next)
    IN
    IF bump.kind # "ok" THEN bump ELSE
    [kind  |-> "ok",
     value |-> [address     |-> address.value,
                signer      |-> signer.value,
                version     |-> version.value,
                git_url     |-> git_url.value,
                commit      |-> commit.value,
                args        |-> args.value,
                deploy_slot |-> deploy_slot,
                bump        |-> bump.value]]

\* ------------------------------------------- the byte layout, as an encoder

\* n.to_bytes(w, 'little')
RECURSIVE to_bytes_little(_, _)
to_bytes_little(n, w) ==
    IF w = 0 THEN <<>> ELSE <<n % 256>> \o to_bytes_little(n \div 256, w - 1)

\* One code point as UTF-8.
EncodeChar(cp) ==
    IF cp < 128 THEN <<cp>>
    ELSE IF cp < 2048 THEN <<192 + (cp \div 64), 128 + (cp % 64)>>
    ELSE IF cp < 65536
         THEN <<224 + (cp \div 4096), 128 + ((cp \div 64) % 64), 128 + (cp % 64)>>
    ELSE <<240 + (cp \div 262144), 128 + ((cp \div 4096) % 64),
           128 + ((cp \div 64) % 64), 128 + (cp % 64)>>

\* s.encode('utf-8')
RECURSIVE encode_utf8(_)
encode_utf8(s) ==
    IF s = <<>> THEN <<>> ELSE EncodeChar(s[1]) \o encode_utf8(Tail(s))

DigitOf(c) == (CHOOSE i \in 1..58 : Alphabet[i] = c) - 1

\* n * 58 + carry on a big-endian base-256 number, from its last digit.
RECURSIVE MulAdd58(_, _, _, _)
MulAdd58(n, i, carry, acc) ==
    IF i = 0 THEN (IF carry = 0 THEN acc ELSE <<carry>> \o acc)
    ELSE LET t == n[i] * 58 + carry
         IN  MulAdd58(n, i - 1, t \div 256, <<t % 256>> \o acc)

RECURSIVE FromBase58(_, _)
FromBase58(s, n) ==
    IF s = <<>> THEN n
    ELSE FromBase58(Tail(s), MulAdd58(n, Len(n), DigitOf(s[1]), <<>>))

\* bytes(Pubkey.from_string(s)): one zero byte per leading "1", then the number.
Base58Decode(s) ==
    LET z == CountLeading(s, "1")
    IN  [i \in 1..z |-> 0] \o FromBase58(SubSeq(s, z + 1, Len(s)), <<>>)

\* u32 length prefix, then the UTF-8 bytes.
EncodeString(s) ==
    LET b == encode_utf8(s) IN to_bytes_little(Len(b), 4) \o b

RECURSIVE EncodeArgs(_)
EncodeArgs(a) ==
    IF a = <<>> THEN <<>> ELSE EncodeString(a[1]) \o EncodeArgs(Tail(a))

\* The layout table, field after field.
EncodeRecord(r) ==
    Base58Decode(r.address) \o Base58Decode(r.signer)
    \o EncodeString(r.version) \o EncodeString(r.git_url)
    \o EncodeString(r.commit)
    \o to_bytes_little(Len(r.args), 4) \o EncodeArgs(r.args)
    \o to_bytes_little(r.deploy_slot, 8) \o <<r.bump>>

\* ------------------------------------------------------- decoder: the inputs

Ones(n) == [i \in 1..n |-> "1"]

\* "A", e-acute (2 bytes), the euro sign (3 bytes), an emoji (4 bytes).
TextA     == <<65>>
TextAcute == <<233>>
TextEuro  == <<8364>>
TextEmoji == <<128512>>
TextUrl   == <<103, 105, 116, 58, 233>>

RECURSIVE SeqsUpTo(_, _)
SeqsUpTo(S, n) ==
    IF n = 0 THEN {<<>>}
    ELSE LET shorter == SeqsUpTo(S, n - 1)
         IN  shorter \cup {Append(q, x) : q \in {t \in shorter : Len(t) = n - 1}, x \in S}

Records ==
    [address     : {Ones(32), Ones(30) \o <<"5", "T">>},
     signer      : {Ones(29) \o <<"2", "U", "z", "H", "L">>},
     version     : {TextA, TextAcute},
     git_url     : {<<>>, TextUrl},
     commit      : {<<>>, TextEuro},
     args        : SeqsUpTo({TextA, TextEmoji}, MaxArgs),
     deploy_slot : {258, 16777217},
     bump        : {0, 255}]

\* Where each string body lies in the encoding of r: [name, from, to), 0-based.
RECURSIVE ArgSpans(_, _, _)
ArgSpans(a, i, pos) ==
    IF i > Len(a) THEN {}
    ELSE LET n == Len(encode_utf8(a[i]))
         IN  {[name |-> "args", from |-> pos + 4, to |-> pos + 4 + n]}
             \cup ArgSpans(a, i + 1, pos + 4 + n)

StringSpans(r) ==
    LET v == Len(encode_utf8(r.version))
        g == Len(encode_utf8(r.git_url))
        c == Len(encode_utf8(r.commit))
    IN  {[name |-> "version", from |-> 68, to |-> 68 + v],
         [name |-> "git_url", from |-> 72 + v, to |-> 72 + v + g],
         [name |-> "commit", from |-> 76 + v + g, to |-> 76 + v + g + c]}
        \cup ArgSpans(r.args, 1, 80 + v + g + c)

\* The offset of the args count in the encoding of r.
CountOffset(r) ==
    76 + Len(encode_utf8(r.version)) + Len(encode_utf8(r.git_url))
       + Len(encode_utf8(r.commit))

\* How a buffer is derived from the encoding of r: left alone, cut to its first
\* `at` bytes, one byte of a string body overwritten by 0xFF (never valid in
\* UTF-8), or the args count raised by one.
Mutations(r) ==
    {[kind |-> "none", at |-> 0]}
    \cup {[kind |-> "cut", at |-> k] : k \in 0..(Len(EncodeRecord(r)) - 1)}
    \cup {[kind |-> "corrupt", at |-> p] :
             p \in UNION {sp.from..(sp.to - 1) : sp \in StringSpans(r)}}
    \cup {[kind |-> "count", at |-> CountOffset(r)]}

Mutate(b, m) ==
    IF m.kind = "cut" THEN SubSeq(b, 1, m.at)
    ELSE IF m.kind = "corrupt" THEN [b EXCEPT ![m.at + 1] = 255]
    ELSE IF m.kind = "count" THEN [b EXCEPT ![m.at + 1] = @ + 1]
    ELSE b

\* ------------------------------------------------------ decoder: the machine

NoResult == [kind |-> "none"]

DecodeIdle ==
    /\ rec = <<>>
    /\ mutation = <<>>
    /\ data = <<>>
    /\ result = NoResult
    /\ dpc = "idle"

ScanIdle ==
    /\ accounts_value = <<>>
    /\ scan_i = 0
    /\ scan_results = <<>>
    /\ scan_out = NoResult

MainIdle ==
    /\ accounts = <<>>
    /\ main_i = 0
    /\ seen_repos = {}
    /\ jsonl_files = {}
    /\ library_name = None
    /\ calls = <<>>
    /\ main_out = "idle"

ExtractIdle ==
    /\ content = <<>>
    /\ nodes = <<>>
    /\ parse_i = 0
    /\ functions = <<>>
    /\ func_nodes = <<>>
    /\ parse_out = NoResult

WalkIdle ==
    /\ fs = <<>>
    /\ walk_pc = "idle"
    /\ outer_stack = <<>>
    /\ inner_stack = <<>>
    /\ cur_root = <<>>
    /\ rust_files = {}
    /\ passed = <<>>
    /\ results = {}
    /\ walk_out = NoResult

InitDecode ==
    /\ ScanIdle /\ MainIdle /\ ExtractIdle /\ WalkIdle
    /\ rec \in Records
    /\ mutation \in Mutations(rec)
    /\ data = Mutate(EncodeRecord(rec), mutation)
    /\ result = NoResult
    /\ dpc = "call"

\* One call of deserialize_account_data(data).
Deserialize ==
    /\ dpc = "call"
    /\ result' = deserialize_account_data(data)
    /\ dpc' = "done"
    /\ UNCHANGED <<rec, mutation, data, scanVars, mainVars, extractVars, walkVars>>

NextDecode == Deserialize

SpecDecode == InitDecode /\ [][NextDecode]_vars

\* ------------------------------------------------------- decoder: the claims

\* The end offset of every read the layout makes on d, in reading order: the
\* two keys, then each length prefix and the body it announces, the args
\* count, each arg, deploy_slot and bump.
StringEnds(d, pos) ==
    {pos + 4, pos + 4 + from_bytes_little(Slice(d, pos, pos + 4))}

AfterString(d, pos) == pos + 4 + from_bytes_little(Slice(d, pos, pos + 4))

RECURSIVE ArgEnds(_, _, _)
ArgEnds(d, pos, n) ==
    IF n = 0 THEN {pos + 8, pos + 9}
    ELSE StringEnds(d, pos) \cup ArgEnds(d, AfterString(d, pos), n - 1)

ReadEnds(d) ==
    LET p1 == AfterString(d, 64)
        p2 == AfterString(d, p1)
        p3 == AfterString(d, p2)
    IN  {32, 64} \cup StringEnds(d, 64) \cup StringEnds(d, p1)
        \cup StringEnds(d, p2) \cup {p3 + 4}
        \cup ArgEnds(d, p3 + 4, from_bytes_little(Slice(d, p3, p3 + 4)))

\* Some field read of the layout reaches past the end of d.
ReadsPastEnd(d) == \E e \in ReadEnds(d) : e > Len(d)

\* The decoder's exceptions in the terms of the error taxonomy: a read outside
\* the buffer (IndexError, or Pubkey's ValueError on a short key) is the
\* truncation error, a failed decoding the encoding error.
IsTruncatedRecord(r) == r.kind \in {"IndexError", "ValueError"}
IsInvalidEncoding(r) == r.kind = "UnicodeDecodeError"

\* The field name an error carries, "none" when it carries none.
ErrorField(r) == IF "field" \in DOMAIN r THEN r.field ELSE "none"

\* The string field whose body holds offset p of the encoding of r.
FieldAt(r, p) ==
    (CHOOSE sp \in StringSpans(r) : sp.from <= p /\ p < sp.to).name

\* C1: whenever some field read of the layout would reach past the end of the
\* buffer, deserialize_account_data fails; it never returns a record built
\* from the bytes that were present.
C1_AllOrNothing ==
    (dpc = "done" /\ ReadsPastEnd(data)) => result.kind # "ok"

\* A buffer cut after the fixed part, whose only failing read is the last one.
C1_Witness ==
    /\ dpc = "done"
    /\ mutation.kind = "cut"
    /\ mutation.at = Len(EncodeRecord(rec)) - 1
    /\ ReadsPastEnd(data)
    /\ result.kind = "IndexError"

\* C2: every buffer cut short fails with the truncation error and with no
\* other error kind, wherever the cut falls.
C2_CutIsTruncatedRecord ==
    (dpc = "done" /\ mutation.kind = "cut") => IsTruncatedRecord(result)

\* C3: a buffer long enough for every field with a string field that is not
\* valid UTF-8 fails with the encoding error, and the error carries the name
\* of the offending field.
C3_InvalidEncodingNamesField ==
    (dpc = "done" /\ mutation.kind = "corrupt")
        => /\ IsInvalidEncoding(result)
           /\ ErrorField(result) = FieldAt(rec, mutation.at)

\* What does hold of the two failures above: a string body that is not UTF-8
\* always ends the call in UnicodeDecodeError, and a buffer cut inside the
\* version length prefix ends it in IndexError, at the read of bump.
DamagedBufferErrors ==
    dpc = "done" =>
        /\ mutation.kind = "corrupt" => result.kind = "UnicodeDecodeError"
        /\ (mutation.kind = "cut" /\ mutation.at \in 64..67)
               => result.kind = "IndexError"
        /\ (mutation.kind = "cut" /\ mutation.at < 64) => result.kind = "ValueError"

\* C4: decoding the encoding of a record yields that record, field for field,
\* with the args in encoding order.
C4_RoundTrip ==
    (dpc = "done" /\ mutation.kind = "none")
        => result = [kind |-> "ok", value |-> rec]

\* A record with two different args, a multi-byte url and a non-empty commit.
C4_Witness ==
    /\ dpc = "done"
    /\ mutation.kind = "none"
    /\ result.kind = "ok"
    /\ Len(rec.args) = 2
    /\ rec.args[1] # rec.args[2]
    /\ rec.git_url = TextUrl
    /\ rec.commit = TextEuro
    /\ rec.deploy_slot = 16777217

\* ============================================================ find_explorer_pdas

\* The 8 bytes that precede the record in an account's data.
Discriminator == <<1, 2, 3, 4, 5, 6, 7, 8>>

ScanRecordA ==
    [address |-> Ones(32), signer |-> Ones(29) \o <<"2", "U", "z", "H", "L">>,
     version |-> TextAcute, git_url |-> TextUrl, commit |-> TextEuro,
     args |-> <<TextA>>, deploy_slot |-> 258, bump |-> 255]

ScanRecordB ==
    [address |-> Ones(30) \o <<"5", "T">>,
     signer |-> Ones(29) \o <<"2", "U", "z", "H", "L">>,
     version |-> TextA, git_url |-> TextA, commit |-> <<>>,
     args |-> <<>>, deploy_slot |-> 16777217, bump |-> 0]

\* What get_program_accounts can return for one account: two sound payloads,
\* one cut inside its version, one with a version that is not UTF-8.
Payloads ==
    { Discriminator \o EncodeRecord(ScanRecordA),
      Discriminator \o EncodeRecord(ScanRecordB),
      Discriminator \o Mutate(EncodeRecord(ScanRecordA), [kind |-> "cut", at |-> 69]),
      Discriminator \o Mutate(EncodeRecord(ScanRecordB), [kind |-> "corrupt", at |-> 68]) }

InitScan ==
    /\ DecodeIdle /\ MainIdle /\ ExtractIdle /\ WalkIdle
    /\ accounts_value \in SeqsUpTo(Payloads, MaxAccounts)
    /\ scan_i = 1
    /\ scan_results = <<>>
    /\ scan_out = NoResult

\* One iteration of `for account in accounts.value`: the decoded record is
\* appended; an exception of the decoder is not caught and leaves the function.
ScanAccount ==
    /\ scan_out = NoResult
    /\ scan_i \in 1..Len(accounts_value)
    /\ \E r \in {deserialize_account_data(
                     Slice(accounts_value[scan_i], 8, Len(accounts_value[scan_i])))} :
          IF r.kind = "ok"
          THEN /\ scan_results' = Append(scan_results, r.value)
               /\ scan_i' = scan_i + 1
               /\ UNCHANGED scan_out
          ELSE /\ scan_out' = r
               /\ UNCHANGED <<scan_i, scan_results>>
    /\ UNCHANGED <<accounts_value, decodeVars, mainVars, extractVars, walkVars>>

\* return results
ScanReturn ==
    /\ scan_out = NoResult
    /\ scan_i = Len(accounts_value) + 1
    /\ scan_out' = [kind |-> "ok", value |-> scan_results]
    /\ UNCHANGED <<accounts_value, scan_i, scan_results, decodeVars, mainVars,
                   extractVars, walkVars>>

NextScan == ScanAccount \/ ScanReturn

SpecScan == InitScan /\ [][NextScan]_vars

\* The records of the payloads that decode, in fetch order.
RECURSIVE DecodedOf(_)
DecodedOf(ps) ==
    IF ps = <<>> THEN <<>>
    ELSE LET r == deserialize_account_data(Slice(ps[1], 8, Len(ps[1])))
         IN  (IF r.kind = "ok" THEN <<r.value>> ELSE <<>>) \o DecodedOf(Tail(ps))

\* C8: when the decoding of one account fails only that record is skipped: the
\* scan ends by returning the record of every other account, in fetch order.
C8_FailedRecordSkipped ==
    scan_out # NoResult
        => scan_out = [kind |-> "ok", value |-> DecodedOf(accounts_value)]

\* ========================================================================= main

\* Most accounts main iterates over.
MaxMainAccounts == 2

\* "--library-name", "./" and "lib" as text.
Marker == <<45, 45, 108, 105, 98, 114, 97, 114, 121, 45, 110, 97, 109, 101>>
DefaultRoot == <<46, 47>>
TextLib == <<108, 105, 98>>

\* The records main can be handed (the fields it reads).
MainRecords ==
    [address : {Ones(32), Ones(30) \o <<"5", "T">>},
     git_url : {<<>>, TextA, TextUrl},
     commit  : {<<>>, TextEuro},
     args    : {<<>>, <<TextA>>, <<Marker, TextLib>>, <<TextA, Marker>>}]

InitMain ==
    /\ DecodeIdle /\ ScanIdle /\ ExtractIdle /\ WalkIdle
    /\ accounts \in SeqsUpTo(MainRecords, MaxMainAccounts)
    /\ main_i = 1
    /\ seen_repos = {}
    /\ jsonl_files \in SUBSET {Ones(32), Ones(30) \o <<"5", "T">>}
    /\ library_name = None
    /\ calls = <<>>
    /\ main_out = "loop"

\* for (i, arg) in enumerate(args): the element after the first arg that
\* starts with the marker, None without such an arg, IndexError when that arg
\* is the last one.  i counts from 0.
RECURSIVE ScanLibraryName(_, _)
ScanLibraryName(args, i) ==
    IF i >= Len(args) THEN [kind |-> "ok", value |-> None]
    ELSE IF startswith(args[i + 1], Marker)
         THEN LET following == Index(args, i + 1)
              IN  IF following.kind = "ok"
                  THEN [kind |-> "ok", value |-> Some(following.value)]
                  ELSE following
    ELSE ScanLibraryName(args, i + 1)

\* One iteration of `for account in accounts`.  analyze_repo and
\* save_results_as_jsonl are the environment's: they return, leaving the
\* program's jsonl file behind, or raise.
MainAccount ==
    /\ main_out = "loop"
    /\ main_i \in 1..Len(accounts)
    /\ LET account == accounts[main_i]
           program_id == account.address
           repo_url == account.git_url
           workspace_root == DefaultRoot
           commit_hash == IF Len(account.commit) > 0 THEN Some(account.commit) ELSE None
           lib == ScanLibraryName(account.args, 0)
       IN  IF lib.kind # "ok"
           THEN /\ main_out' = lib.kind
                /\ UNCHANGED <<main_i, seen_repos, jsonl_files, library_name, calls>>
           ELSE IF repo_url \in seen_repos \/ program_id \in jsonl_files
           THEN /\ main_i' = main_i + 1
                /\ library_name' = lib.value
                /\ UNCHANGED <<seen_repos, jsonl_files, calls, main_out>>
           ELSE IF repo_url = <<>>
           THEN /\ main_out' = "ValueError"
                /\ seen_repos' = seen_repos \cup {repo_url}
                /\ library_name' = lib.value
                /\ UNCHANGED <<main_i, jsonl_files, calls>>
           ELSE \E returns \in BOOLEAN :
                /\ seen_repos' = seen_repos \cup {repo_url}
                /\ library_name' = lib.value
                /\ calls' = Append(calls, [account        |-> main_i,
                                           repo_url       |-> repo_url,
                                           program_id     |-> program_id,
                                           workspace_root |-> workspace_root,
                                           commit_hash    |-> commit_hash])
                /\ IF returns
                   THEN /\ jsonl_files' = jsonl_files \cup {program_id}
                        /\ main_i' = main_i + 1
                        /\ UNCHANGED main_out
                   ELSE /\ main_out' = "Exception"
                        /\ UNCHANGED <<main_i, jsonl_files>>
    /\ UNCHANGED <<accounts, decodeVars, scanVars, extractVars, walkVars>>

\* The loop is over: main returns.
MainReturn ==
    /\ main_out = "loop"
    /\ main_i = Len(accounts) + 1
    /\ main_out' = "returned"
    /\ UNCHANGED <<accounts, main_i, seen_repos, jsonl_files, library_name, calls,
                   decodeVars, scanVars, extractVars, walkVars>>

NextMain == MainAccount \/ MainReturn

SpecMain == InitMain /\ [][NextMain]_vars

\* The positions of args that hold the marker.
MarkerAt(args) == {i \in 1..Len(args) : startswith(args[i], Marker)}

\* The workspace root the args name: the element following the first marker,
\* the default root when there is no marker or nothing follows it.
ExpectedRoot(args) ==
    IF MarkerAt(args) = {} THEN DefaultRoot
    ELSE LET i == CHOOSE j \in MarkerAt(args) : \A k \in MarkerAt(args) : j <= k
         IN  IF i < Len(args) THEN args[i + 1] ELSE DefaultRoot

\* C9: every call of analyze_repo gets as workspace root the element that
\* follows the --library-name marker in the account's args (the default root
\* without a marker), and a marker in last position does not abort the run.
C9_LibraryNameIsWorkspaceRoot ==
    /\ \A k \in 1..Len(calls) :
          calls[k].workspace_root = ExpectedRoot(accounts[calls[k].account].args)
    /\ main_out # "IndexError"

\* =================================================================== RustParser

\* Most top-level items of a generated file.
MaxItems == 3

\* The line feed.
NL == <<10>>

\* The items a file is made of: the kind of the node the parser gives it, its
\* text, and the text of its name child, if it has one.  "//d", "//" with an
\* e-acute, "#[a]", "#[b]", "fn f(){}", "fn g(){" line feed "}", a function
\* item without a name child, "use x;".
Items ==
    { [type |-> "line_comment", text |-> <<47, 47, 100>>, name |-> None],
      [type |-> "line_comment", text |-> <<47, 47, 233>>, name |-> None],
      [type |-> "attribute_item", text |-> <<35, 91, 97, 93>>, name |-> None],
      [type |-> "attribute_item", text |-> <<35, 91, 98, 93>>, name |-> None],
      [type |-> "function_item", text |-> <<102, 110, 32, 102, 40, 41, 123, 125>>,
       name |-> Some(<<102>>)],
      [type |-> "function_item", text |-> <<102, 110, 32, 103, 40, 41, 123, 10, 125>>,
       name |-> Some(<<103>>)],
      [type |-> "function_item", text |-> <<102, 110, 32, 40, 41, 123, 125>>,
       name |-> None],
      [type |-> "use_declaration", text |-> <<117, 115, 101, 32, 120, 59>>,
       name |-> None] }

\* The file text: every item on lines of its own.
RECURSIVE TextOf(_)
TextOf(items) ==
    IF items = <<>> THEN <<>> ELSE items[1].text \o NL \o TextOf(Tail(items))

\* The number of bytes of text in UTF-8.
ByteLen(text) == Len(encode_utf8(text))

\* self.parser.parse(bytes(content, 'utf8')): the children of the root node,
\* each with its kind, its byte range in the encoded text and its name child.
RECURSIVE ParseItems(_, _)
ParseItems(items, offset) ==
    IF items = <<>> THEN <<>>
    ELSE LET n == ByteLen(items[1].text)
         IN  << [type       |-> items[1].type,
                 start_byte |-> offset,
                 end_byte   |-> offset + n,
                 name       |-> items[1].name] >>
             \o ParseItems(Tail(items), offset + n + 1)

\* query.matches(tree.root_node): the function_item nodes, in document order.
Matches(ns) == SelectSeq([i \in 1..Len(ns) |-> i], LAMBDA i : ns[i].type = "function_item")

\* The text parse_file takes for a node: the str sliced by the byte offsets.
NodeSlice(source_code, n) == Slice(source_code, n.start_byte, n.end_byte)

\* while current.prev_sibling and current.prev_sibling.type == type: the texts
\* of the run of siblings of that type that ends just before node j, each
\* inserted at the front.
RECURSIVE PrevSiblings(_, _, _, _, _)
PrevSiblings(ns, j, type, source_code, acc) ==
    IF j > 1 /\ ns[j - 1].type = type
    THEN PrevSiblings(ns, j - 1, type, source_code,
                      <<NodeSlice(source_code, ns[j - 1])>> \o acc)
    ELSE acc

extract_docstring(ns, j, source_code) ==
    LET comments == PrevSiblings(ns, j, "line_comment", source_code, <<>>)
    IN  IF comments # <<>> THEN Some(join(NL, comments)) ELSE None

extract_attributes(ns, j, source_code) ==
    PrevSiblings(ns, j, "attribute_item", source_code, <<>>)

\* The RustFunction parse_file builds for node j.
RustFunction(ns, j, source_code) ==
    [name       |-> ns[j].name.value,
     content    |-> NodeSlice(source_code, ns[j]),
     start_line |-> count(Slice(source_code, 0, ns[j].start_byte), 10) + 1,
     end_line   |-> count(Slice(source_code, 0, ns[j].end_byte), 10) + 1,
     attributes |-> extract_attributes(ns, j, source_code),
     docstring  |-> extract_docstring(ns, j, source_code)]

InitExtract ==
    /\ DecodeIdle /\ ScanIdle /\ MainIdle /\ WalkIdle
    /\ \E items \in SeqsUpTo(Items, MaxItems) :
          /\ content = TextOf(items)
          /\ nodes = ParseItems(items, 0)
    /\ parse_i = 1
    /\ functions = <<>>
    /\ func_nodes = <<>>
    /\ parse_out = NoResult

\* One iteration of `for match in matches`: a node without a name child is
\* passed over, any other becomes a RustFunction.
ParseMatch ==
    /\ parse_out = NoResult
    /\ parse_i \in 1..Len(Matches(nodes))
    /\ LET j == Matches(nodes)[parse_i]
       IN  IF nodes[j].name.some
           THEN /\ functions' = Append(functions, RustFunction(nodes, j, content))
                /\ func_nodes' = Append(func_nodes, j)
           ELSE UNCHANGED <<functions, func_nodes>>
    /\ parse_i' = parse_i + 1
    /\ UNCHANGED <<content, nodes, parse_out, decodeVars, scanVars, mainVars, walkVars>>

\* return functions
ParseReturn ==
    /\ parse_out = NoResult
    /\ parse_i = Len(Matches(nodes)) + 1
    /\ parse_out' = [kind |-> "ok", value |-> functions]
    /\ UNCHANGED <<content, nodes, parse_i, functions, func_nodes,
                   decodeVars, scanVars, mainVars, walkVars>>

NextExtract == ParseMatch \/ ParseReturn

SpecExtract == InitExtract /\ [][NextExtract]_vars

\* -------------------------------------------------------- extractor: the claims

\* The file as the parser saw it, and a node's verbatim text: its bytes.
FileBytes == encode_utf8(content)
NodeText(n) == decode_utf8(Slice(FileBytes, n.start_byte, n.end_byte)).value

\* The nodes of the maximal run of siblings of one kind that ends just before
\* node j, in source order.
RECURSIVE RunBefore(_, _)
RunBefore(j, type) ==
    IF j > 1 /\ nodes[j - 1].type = type
    THEN Append(RunBefore(j - 1, type), j - 1)
    ELSE <<>>

TextsOf(run) == [k \in 1..Len(run) |-> NodeText(nodes[run[k]])]

\* Every character of the file is one byte long.
OneByteText == \A k \in 1..Len(content) : content[k] < 128

DocstringOk(k) ==
    LET run == RunBefore(func_nodes[k], "line_comment")
    IN  functions[k].docstring =
            (IF run = <<>> THEN None ELSE Some(join(NL, TextsOf(run))))

AttributesOk(k) ==
    functions[k].attributes = TextsOf(RunBefore(func_nodes[k], "attribute_item"))

LinesOk(k) ==
    LET n == nodes[func_nodes[k]]
    IN  /\ functions[k].start_line = 1 + count(Slice(FileBytes, 0, n.start_byte), 10)
        /\ functions[k].end_line = 1 + count(Slice(FileBytes, 0, n.end_byte), 10)
        /\ functions[k].start_line <= functions[k].end_line

\* C5: the docstring of every record is the newline-join, in source order, of
\* the texts of the line comments that immediately precede the function node,
\* and None when there is none: a function behind attribute markers has
\* docstring None.
C5_DocstringIsAdjacentComments ==
    \A k \in 1..Len(functions) : DocstringOk(k)

\* C6: the attributes of every record are the verbatim texts, in source
\* order, of the maximal run of attribute markers that immediately precede the
\* function node.
C6_AttributesAreAdjacentMarkers ==
    \A k \in 1..Len(functions) : AttributesOk(k)

\* C7: start_line and end_line of every record are 1 plus the number of line
\* feeds before the node's start and end byte offsets in the file, and
\* start_line <= end_line.
C7_LinesCountNewlinesBeforeOffsets ==
    \A k \in 1..Len(functions) : LinesOk(k)

\* On a file of one-byte characters byte offsets are character offsets, and the
\* three statements above hold of every record.
OneByteTextExtraction ==
    OneByteText =>
        \A k \in 1..Len(functions) : DocstringOk(k) /\ AttributesOk(k) /\ LinesOk(k)

\* The selection of siblings does not depend on the text: with or without
\* multi-byte characters, a record has as many attributes as attribute markers
\* immediately precede its node, has a docstring exactly when a line comment
\* immediately precedes it, and its lines are in order.
SiblingSelection ==
    \A k \in 1..Len(functions) :
        /\ Len(functions[k].attributes)
               = Len(RunBefore(func_nodes[k], "attribute_item"))
        /\ functions[k].docstring.some
               = (RunBefore(func_nodes[k], "line_comment") # <<>>)
        /\ functions[k].start_line <= functions[k].end_line

\* ================================================================= analyze_repo

\* File names: "Cargo.toml", "a.rs", "b.rs", "c.md"; the suffix ".rs".
CargoToml == <<67, 97, 114, 103, 111, 46, 116, 111, 109, 108>>
FileA == <<97, 46, 114, 115>>
FileB == <<98, 46, 114, 115>>
FileC == <<99, 46, 109, 100>>
DotRs == <<46, 114, 115>>

\* The directories a repository may hold, as paths below repo_root.
Universe ==
    { <<>>, <<"src">>, <<"src", "a">>, <<"src", "b">>, <<"p">>, <<"p", "src">> }

Parent(d) == SubSeq(d, 1, Len(d) - 1)

\* What a directory may hold: a manifest or nothing outside src, sources inside.
FilesFor(d) ==
    IF d \in {<<>>, <<"p">>} THEN {{}, {CargoToml}}
    ELSE {{}, {FileA}, {FileB, FileC}}

\* The repositories: a set of directories closed under Parent, each with files.
FileSystems ==
    UNION { {f \in [D -> {{}, {CargoToml}, {FileA}, {FileB, FileC}}] :
                \A d \in D : f[d] \in FilesFor(d)} :
            D \in {E \in SUBSET Universe :
                      <<>> \in E /\ \A d \in E : d # <<>> => Parent(d) \in E} }

\* The names of the subdirectories of d, and d's subdirectories.
DirNames(f, d) == {e[Len(e)] : e \in {x \in DOMAIN f : x # <<>> /\ Parent(x) = d}}
SubDirs(f, d) == {x \in DOMAIN f : x # <<>> /\ Parent(x) = d}

\* The orders scandir may list a set of directories in.
Orders(S) == {q \in [1..Cardinality(S) -> S] : \A x \in S : \E i \in DOMAIN q : q[i] = x}

InitWalk ==
    /\ DecodeIdle /\ ScanIdle /\ MainIdle /\ ExtractIdle
    /\ fs \in FileSystems
    /\ walk_pc = "start"
    /\ outer_stack = <<>>
    /\ inner_stack = <<>>
    /\ cur_root = <<>>
    /\ rust_files = {}
    /\ passed = <<>>
    /\ results = {}
    /\ walk_out = NoResult

\* Up to the first os.walk: without an API key ValueError is raised; a clone
\* that fails makes analyze_repo return []; else the walk starts at repo_root.
AnalyzeStart ==
    /\ walk_pc = "start"
    /\ \E outcome \in {"no_key", "clone_failed", "cloned"} :
          IF outcome = "no_key"
          THEN /\ walk_pc' = "done"
               /\ walk_out' = [kind |-> "ValueError"]
               /\ UNCHANGED outer_stack
          ELSE IF outcome = "clone_failed"
          THEN /\ walk_pc' = "done"
               /\ walk_out' = [kind |-> "ok", value |-> {}]
               /\ UNCHANGED outer_stack
          ELSE /\ walk_pc' = "outer"
               /\ outer_stack' = << <<>> >>
               /\ UNCHANGED walk_out
    /\ UNCHANGED <<fs, inner_stack, cur_root, rust_files, passed, results,
                   decodeVars, scanVars, mainVars, extractVars>>

\* src_exists: 'src' in dirs, or some subdir holds a src.
src_exists(f, root) ==
    \/ "src" \in DirNames(f, root)
    \/ \E subdir \in SubDirs(f, root) : Append(subdir, "src") \in DOMAIN f

\* One step of `for root, dirs, files in os.walk(repo_root)`: the directory is
\* yielded and its subdirectories are queued before the rest, in listing
\* order.  A directory with a Cargo.toml and a src is a workspace: rust_files
\* is reset and os.walk(root/src) starts (it yields nothing when root/src does
\* not exist).
OuterStep ==
    /\ walk_pc = "outer"
    /\ outer_stack # <<>>
    /\ LET root == Head(outer_stack)
       IN  /\ \E order \in Orders(SubDirs(fs, root)) :
                 outer_stack' = order \o Tail(outer_stack)
           /\ IF CargoToml \in fs[root] /\ src_exists(fs, root)
              THEN /\ walk_pc' = "inner"
                   /\ cur_root' = root
                   /\ rust_files' = {}
                   /\ inner_stack' = IF Append(root, "src") \in DOMAIN fs
                                     THEN <<Append(root, "src")>> ELSE <<>>
              ELSE UNCHANGED <<walk_pc, cur_root, rust_files, inner_stack>>
    /\ UNCHANGED <<fs, passed, results, walk_out,
                   decodeVars, scanVars, mainVars, extractVars>>

\* One step of `for src_root, _, src_files in os.walk(root/src)`: rust_files
\* is assigned the .rs files of this directory.
InnerStep ==
    /\ walk_pc = "inner"
    /\ inner_stack # <<>>
    /\ LET src_root == Head(inner_stack)
       IN  /\ rust_files' = {[dir |-> src_root, file |-> file] :
                                file \in {x \in fs[src_root] : endswith(x, DotRs)}}
           /\ \E order \in Orders(SubDirs(fs, src_root)) :
                 inner_stack' = order \o Tail(inner_stack)
    /\ UNCHANGED <<fs, walk_pc, outer_stack, cur_root, passed, results, walk_out,
                   decodeVars, scanVars, mainVars, extractVars>>

\* The inner walk is over: process_files(analyzer, rust_files, ...) adds the
\* entries of the functions of each file it is given to results.
ProcessFiles ==
    /\ walk_pc = "inner"
    /\ inner_stack = <<>>
    /\ passed' = Append(passed, [root |-> cur_root, files |-> rust_files])
    /\ results' = results \cup rust_files
    /\ walk_pc' = "outer"
    /\ UNCHANGED <<fs, outer_stack, inner_stack, cur_root, rust_files, walk_out,
                   decodeVars, scanVars, mainVars, extractVars>>

\* return results
WalkReturn ==
    /\ walk_pc = "outer"
    /\ outer_stack = <<>>
    /\ walk_pc' = "done"
    /\ walk_out' = [kind |-> "ok", value |-> results]
    /\ UNCHANGED <<fs, outer_stack, inner_stack, cur_root, rust_files, passed,
                   results, decodeVars, scanVars, mainVars, extractVars>>

NextWalk == AnalyzeStart \/ OuterStep \/ InnerStep \/ ProcessFiles \/ WalkReturn

SpecWalk == InitWalk /\ [][NextWalk]_vars

\* d lies in the tree rooted at top.
Under(d, top) == Len(d) >= Len(top) /\ SubSeq(d, 1, Len(top)) = top

\* Every .rs file of the src tree of the workspace at root.
RustFilesUnder(root) ==
    UNION {{[dir |-> d, file |-> x] : x \in {y \in fs[d] : endswith(y, DotRs)}} :
              d \in {e \in DOMAIN fs : Under(e, Append(root, "src"))}}

\* C10: for every workspace found, every .rs file of every directory under its
\* src is passed to process_files and so has its entries in the results.
C10_AllRustFilesProcessed ==
    /\ \A k \in 1..Len(passed) : RustFilesUnder(passed[k].root) \subseteq passed[k].files
    /\ walk_out.kind = "ok"
           => \A k \in 1..Len(passed) : RustFilesUnder(passed[k].root) \subseteq walk_out.value

\* What the walk does pass: the .rs files of one directory only, the one the
\* inner walk yielded last.
PassedFilesShareADirectory ==
    \A k \in 1..Len(passed) :
        \A x, y \in passed[k].files : x.dir = y.dir

=============================================================================
